---- MODULE Spec2Model ----
(***************************************************************************)
(* Model of py/autoevals/number.py: the NumericDiff scorer.                *)
(*                                                                         *)
(* A fixed set of callers invoke NumericDiff._run_eval_sync on one scorer  *)
(* object.  Each caller is idle, has a call in progress, or holds the      *)
(* outcome of its last call (a Score record, or a raised exception).       *)
(* Numbers are integers and the score is an exact rational <<num, den>>    *)
(* in lowest terms with den > 0.                                           *)
(***************************************************************************)
EXTENDS Integers, Sequences, FiniteSets

VARIABLES pc, args, result

vars == <<pc, args, result>>

\* ---------------------------------------------------------------- bounds
MaxAbs == 3

\* the values of the documented examples that lie beyond MaxAbs
ExampleValues == {-10, -5, 5, 10}

Values == (-MaxAbs..MaxAbs) \cup ExampleValues

\* the callers whose invocations may interleave
Threads == {"t1", "t2"}

\* ------------------------------------------------- optional values (None)
None == <<>>

Some(v) == <<v>>

IsNone(x) == x = None

Val(x) == x[1]

Expecteds == {None} \cup {Some(v) : v \in Values}

\* **kwargs: a set of <<key, value>> pairs
Kwargs == {{}, {<<"name", "custom">>}}

\* ------------------------------------------------------------ arithmetic
AbsAsIdentity(x) == x

Abs(x) == IF x < 0 THEN -x ELSE x

MaxAsFirst(a, b) == a

MaxAsSum(a, b) == a + b

MaxAsMin(a, b) == IF a <= b THEN a ELSE b

Max(a, b) == IF a >= b THEN a ELSE b

RECURSIVE GCD(_, _)
GCD(a, b) == IF b = 0 THEN a ELSE GCD(b, a % b)

\* the rational n/d (d # 0) in lowest terms with a positive denominator
Rat(n, d) ==
    LET g == GCD(IF n < 0 THEN -n ELSE n, IF d < 0 THEN -d ELSE d)
        s == IF d < 0 THEN -1 ELSE 1
    IN  <<(s * n) \div g, (s * d) \div g>>

One == Rat(1, 1)

\* a / b for integers a, b with b # 0
TrueDiv(a, b) == Rat(a, b)

RatSubSwapped(x, y) == Rat(y[1] * x[2] - x[1] * y[2], x[2] * y[2])

\* x - y for rationals
RatSub(x, y) == Rat(x[1] * y[2] - y[1] * x[2], x[2] * y[2])

\* ------------------------------------------------------------- outcomes
Name == "NumericDiff"

Score(name, score) == [kind |-> "returned", name |-> name, score |-> score]

Raised(error) == [kind |-> "raised", error |-> error]

NoResult == [kind |-> "none"]

NoArgs == [output |-> 0, expected |-> None, kwargs |-> {}]

\* ------------------------------------------------------- _run_eval_sync
BothZeroNever(output, expected) == FALSE

BothZeroAsEither(output, expected) == expected = 0 \/ output = 0

BothZero(output, expected) == expected = 0 /\ output = 0

\* 1 - (abs(expected - output) / max(abs(expected), abs(output)))
Formula(output, expected) ==
    LET num == Abs(expected - output)
        den == Max(Abs(expected), Abs(output))
    IN  IF den = 0
        THEN Raised("ZeroDivisionError")
        ELSE Score(Name, RatSub(One, TrueDiv(num, den)))

RunEvalSyncMissingScoresZero(output, expected, kwargs) ==
    IF IsNone(expected)
    THEN Score(Name, Rat(0, 1))
    ELSE IF BothZero(output, Val(expected))
         THEN Score(Name, One)
         ELSE Formula(output, Val(expected))

RunEvalSyncNameFromKwargs(output, expected, kwargs) ==
    LET nm == IF \E kv \in kwargs : kv[1] = "name"
              THEN (CHOOSE kv \in kwargs : kv[1] = "name")[2]
              ELSE Name
        r  == IF IsNone(expected)
              THEN Raised("ValueError")
              ELSE IF BothZero(output, Val(expected))
                   THEN Score(Name, One)
                   ELSE Formula(output, Val(expected))
    IN  IF r.kind = "returned" THEN Score(nm, r.score) ELSE r

RunEvalSync(output, expected, kwargs) ==
    IF IsNone(expected)
    THEN Raised("ValueError")
    ELSE IF BothZero(output, Val(expected))
         THEN Score(Name, One)
         ELSE Formula(output, Val(expected))

\* ---------------------------------------------------------------- state
TypeOK ==
    /\ pc \in [Threads -> {"idle", "called", "returned", "raised"}]
    /\ \A t \in Threads :
          /\ args[t].output \in Values
          /\ args[t].expected \in Expecteds
          /\ args[t].kwargs \in Kwargs
          /\ result[t].kind \in {"none", "returned", "raised"}

Init ==
    /\ pc = [t \in Threads |-> "idle"]
    /\ args = [t \in Threads |-> NoArgs]
    /\ result = [t \in Threads |-> NoResult]

\* a caller invokes the scorer with (output, expected, **kwargs)
Call(t, output, expected, kwargs) ==
    /\ pc[t] = "idle"
    /\ pc' = [pc EXCEPT ![t] = "called"]
    /\ args' = [args EXCEPT ![t] =
                   [output |-> output, expected |-> expected, kwargs |-> kwargs]]
    /\ UNCHANGED result

\* the body of _run_eval_sync runs to its return or its raise
Eval(t) ==
    /\ pc[t] = "called"
    /\ LET r == RunEvalSync(args[t].output, args[t].expected, args[t].kwargs)
       IN  /\ result' = [result EXCEPT ![t] = r]
           /\ pc' = [pc EXCEPT ![t] = r.kind]
    /\ UNCHANGED args

\* the caller consumes the Score record
TakeScore(t) ==
    /\ pc[t] = "returned"
    /\ pc' = [pc EXCEPT ![t] = "idle"]
    /\ args' = [args EXCEPT ![t] = NoArgs]
    /\ result' = [result EXCEPT ![t] = NoResult]

\* the caller handles the exception
HandleError(t) ==
    /\ pc[t] = "raised"
    /\ pc' = [pc EXCEPT ![t] = "idle"]
    /\ args' = [args EXCEPT ![t] = NoArgs]
    /\ result' = [result EXCEPT ![t] = NoResult]

Next ==
    \/ \E t \in Threads, o \in Values, e \in Expecteds, kw \in Kwargs :
          Call(t, o, e, kw)
    \/ \E t \in Threads : Eval(t)
    \/ \E t \in Threads : TakeScore(t)
    \/ \E t \in Threads : HandleError(t)

Spec == Init /\ [][Next]_vars

\* ------------------------------------------------------------ vocabulary
Done(t) == pc[t] \in {"returned", "raised"}

Present(t) == ~IsNone(args[t].expected)

Out(t) == args[t].output

Exp(t) == Val(args[t].expected)

Returned(t) == pc[t] = "returned" /\ result[t].kind = "returned"

\* comparisons of a score <<n, d>> (d > 0) with an integer k
ScoreEq(s, k) == s[1] = k * s[2]

ScoreLt(s, k) == s[1] < k * s[2]

ScoreGt(s, k) == s[1] > k * s[2]

Sign(x) == IF x > 0 THEN 1 ELSE IF x < 0 THEN -1 ELSE 0

\* ================================================================ claims

\* C1: whatever output is, a call with expected absent (None) ends in the
\* missing-required-input error (the ValueError of the guard) and holds no
\* Score record; it is never reported as a score.
C1_MissingExpectedRaises ==
    \A t \in Threads :
        (Done(t) /\ ~Present(t)) =>
            /\ pc[t] = "raised"
            /\ result[t] = Raised("ValueError")
            /\ result[t].kind # "returned"

C1_Witness ==
    \E t \in Threads :
        /\ pc[t] = "raised"
        /\ ~Present(t)
        /\ Out(t) < 0
        /\ result[t] = Raised("ValueError")

\* C2: for every pair (output, expected) with expected present, the returned
\* score lies in the closed interval [0,1].
C2_ScoreInUnitInterval ==
    \A t \in Threads :
        (Done(t) /\ Present(t)) =>
            /\ Returned(t)
            /\ ~ScoreLt(result[t].score, 0)
            /\ ~ScoreGt(result[t].score, 1)

\* C3: for every pair (output, expected) not both zero the returned score s
\* is the exact rational 1 - |expected - output| / max(|expected|, |output|),
\* that is s * m = m - |expected - output| with m the larger magnitude;
\* output = 10, expected = 5 gives 1/2.
C3_ScoreIsReference ==
    \A t \in Threads :
        (Done(t) /\ Present(t) /\ ~(Out(t) = 0 /\ Exp(t) = 0)) =>
            LET o == Out(t)
                e == Exp(t)
                d == IF e >= o THEN e - o ELSE o - e
                ao == IF o >= 0 THEN o ELSE 0 - o
                ae == IF e >= 0 THEN e ELSE 0 - e
                m == IF ae >= ao THEN ae ELSE ao
            IN  /\ Returned(t)
                /\ result[t].score[2] > 0
                /\ result[t].score[1] * m = (m - d) * result[t].score[2]
                /\ (o = 10 /\ e = 5) => result[t].score = <<1, 2>>

C3_Witness ==
    \E t \in Threads :
        /\ Returned(t)
        /\ Out(t) = 10
        /\ Exp(t) = 5
        /\ result[t].score = <<1, 2>>

\* C4: for every x, zero and negative included, a call with
\* output = expected = x returns score exactly 1.
C4_EqualInputsScoreOne ==
    \A t \in Threads :
        (Done(t) /\ Present(t) /\ Out(t) = Exp(t)) =>
            /\ Returned(t)
            /\ result[t].score = <<1, 1>>

C4_Witness ==
    /\ \E t \in Threads :
          Returned(t) /\ Out(t) = 0 /\ Exp(t) = 0 /\ result[t].score = <<1, 1>>
    /\ \E t \in Threads :
          Returned(t) /\ Out(t) < 0 /\ Exp(t) = Out(t) /\ result[t].score = <<1, 1>>

\* C5: when exactly one of output and expected is zero the returned score is
\* exactly 0, both for expected = 0 (a present reference value) and for
\* output = 0.
C5_OneZeroScoreZero ==
    \A t \in Threads :
        (Done(t) /\ Present(t) /\ ((Out(t) = 0) # (Exp(t) = 0))) =>
            /\ Returned(t)
            /\ result[t].score = <<0, 1>>

C5_Witness ==
    /\ \E t \in Threads :
          Returned(t) /\ Out(t) = 5 /\ Exp(t) = 0 /\ result[t].score = <<0, 1>>
    /\ \E t \in Threads :
          Returned(t) /\ Out(t) = 0 /\ Exp(t) < 0 /\ result[t].score = <<0, 1>>

\* C6: for nonzero a and b of the same sign the call (output = a,
\* expected = b) and the call (output = b, expected = a) return the same
\* score.
C6_SwapSymmetric ==
    \A s, t \in Threads :
        ( /\ Done(s) /\ Done(t) /\ Present(s) /\ Present(t)
          /\ Out(s) # 0 /\ Exp(s) # 0 /\ Sign(Out(s)) = Sign(Exp(s))
          /\ Out(t) = Exp(s) /\ Exp(t) = Out(s) ) =>
            /\ Returned(s)
            /\ Returned(t)
            /\ result[s].score = result[t].score

C6_Witness ==
    \E s, t \in Threads :
        /\ Returned(s) /\ Returned(t)
        /\ Out(s) = 5 /\ Exp(s) = 10
        /\ Out(t) = 10 /\ Exp(t) = 5
        /\ result[s].score = result[t].score

\* C7: when output = -expected with nonzero magnitude the returned score is
\* exactly -1; it is not clamped into [0,1].
C7_OppositeEqualMagnitude ==
    \A t \in Threads :
        (Done(t) /\ Present(t) /\ Exp(t) # 0 /\ Out(t) = 0 - Exp(t)) =>
            /\ Returned(t)
            /\ result[t].score = <<-1, 1>>

C7_Witness ==
    \E t \in Threads :
        Returned(t) /\ Out(t) = -5 /\ Exp(t) = 5 /\ result[t].score = <<-1, 1>>

\* C8: a missing expected is the only failure: every call with expected
\* present (expected = 0 and output = 0 included) returns a Score record and
\* never divides by zero, and every raised outcome is the ValueError of a
\* call without expected.
C8_OnlyMissingExpectedFails ==
    \A t \in Threads :
        /\ (Done(t) /\ Present(t)) =>
              /\ Returned(t)
              /\ result[t] # Raised("ZeroDivisionError")
        /\ pc[t] = "raised" =>
              /\ ~Present(t)
              /\ result[t] = Raised("ValueError")

C8_Witness ==
    /\ \E t \in Threads : Returned(t) /\ Out(t) = 0 /\ Exp(t) = 0
    /\ \E t \in Threads : pc[t] = "raised" /\ ~Present(t)

\* C9: the outcome depends on (output, expected) only: two calls with the
\* same output and expected hold the same outcome, whatever keyword
\* configuration each was given and whatever the other callers are doing.
C9_OutcomeFunctionOfInputs ==
    \A s, t \in Threads :
        ( /\ Done(s) /\ Done(t)
          /\ args[s].output = args[t].output
          /\ args[s].expected = args[t].expected ) =>
            result[s] = result[t]

C9_Witness ==
    \E s, t \in Threads :
        /\ Returned(s) /\ Returned(t)
        /\ args[s].output = args[t].output
        /\ args[s].expected = args[t].expected
        /\ args[s].kwargs # args[t].kwargs
        /\ result[s] = result[t]

\* C10: with expected present the score lies in [-1,1] and its sign follows
\* the inputs: in (0,1] when both are nonzero of one sign or both are zero,
\* exactly 0 when exactly one is zero, in [-1,0) when they are nonzero of
\* opposite signs.
C10_ScoreSign ==
    \A t \in Threads :
        (Done(t) /\ Present(t)) =>
            /\ Returned(t)
            /\ ~ScoreLt(result[t].score, -1)
            /\ ~ScoreGt(result[t].score, 1)
            /\ (Sign(Out(t)) = Sign(Exp(t))) => ScoreGt(result[t].score, 0)
            /\ ((Out(t) = 0) # (Exp(t) = 0)) => ScoreEq(result[t].score, 0)
            /\ (Sign(Out(t)) * Sign(Exp(t)) = -1) => ScoreLt(result[t].score, 0)

C10_Witness ==
    /\ \E t \in Threads :
          /\ Returned(t) /\ Out(t) < 0 /\ Exp(t) < 0 /\ Out(t) # Exp(t)
          /\ ScoreGt(result[t].score, 0) /\ ScoreLt(result[t].score, 1)
    /\ \E t \in Threads :
          /\ Returned(t) /\ Out(t) > 0 /\ Exp(t) < 0 /\ Out(t) # 0 - Exp(t)
          /\ ScoreLt(result[t].score, 0) /\ ScoreGt(result[t].score, -1)

====
